---- MODULE Spec2Model ----
(***************************************************************************)
(* Client-side commerce state and transaction orchestration of kv-garage:  *)
(* the two payment orchestrators (StripePayment for a single pack,         *)
(* CartStripePayment for the cart) and the cart store (GlobalCart).        *)
(*                                                                         *)
(* A browser context runs one event loop: every action below is one run    *)
(* of a handler from its entry (or from the await it resumes at) to its    *)
(* next await or its end.  The payment gateway, the backend and the        *)
(* persisted key-value store are the environment.  Once the page has been  *)
(* left (redirect = "done") nothing of it is followed any further.         *)
(***************************************************************************)
EXTENDS Integers, Sequences, FiniteSets, TLC

VARIABLES
    \* ---- payment orchestrator (one instance per page) ----
    flow,             \* "pack": StripePayment, "cart": CartStripePayment
    stripe,           \* this.stripe is set
    elements,         \* this.elements: 0 = null, k = bound to intent k's client secret
    paymentElement,   \* this.paymentElement is set
    paymentIntentId,  \* this.paymentIntentId: 0 = null
    isProcessing,     \* this.isProcessing (StripePayment only)
    orderData,        \* this.packData / this.cartData with this.customerData: NoData = unset
    buttonDisabled,   \* #payment-button.disabled
    errorMsg,         \* text shown in #payment-error ("" = nothing shown)
    successMsg,       \* text shown in #payment-success
    lastOrder,        \* store key 'lastOrder' / 'kv-garage-last-order' (NoOrder = absent)
    redirect,         \* "none", "pending" (timer armed / navigation started), "done"
    form,             \* the createPaymentForm call in progress
    inv,              \* the processPayment / processCartPayment invocations in flight
    nCalls,           \* invocations started so far
    settleLog,        \* history: the settlement requests sent
    settledOk,        \* history: intents a settlement call returned success for
    unsettled,        \* history: intents a settlement call failed for
    intents,          \* gateway: status of each payment intent created so far
    intentData,       \* backend: order contents each intent was created with
    \* ---- cart store ----
    cart,             \* GlobalCart.cart (in memory)
    storage,          \* store key 'kv-garage-cart': absent, a JSON array, or unparsable text
    loaded,           \* the GlobalCart constructor has run
    lastOp,           \* history: the last cart operation and its argument
    total,            \* what the getTotalItems / getTotalPrice call of this step returned
    \* ---- data loading (PackLoader, PackSystemUtils, the fetch interceptor) ----
    now,              \* Date.now(), in minutes
    packs,            \* PackLoader.packs
    loading,          \* PackLoader.loading
    calls,            \* the loadPacks / getPackById / fetchWithCache calls in flight
    nLoads,           \* calls started so far
    lastReturn,       \* what the call that returns in this step gives its caller
    utilCache,        \* PackSystemUtils.cache: key -> entry
    apiCache,         \* PerformanceOptimizer.apiCache: key -> entry
    intercepts,       \* window.fetch is the interceptor of PerformanceOptimizer
    \* ---- a second browser context on the cart ----
    background,       \* GlobalCart of the tab that is not in front: its cart, or not loaded
    \* ---- session manager (AuthService, one instance per browser context) ----
    contexts,         \* the browser contexts that are open
    clock,            \* new Date().getTime(), in units of 12 hours
    isAuthenticated,  \* this.isAuthenticated of each context
    token,            \* this.token of each context: 0 = null
    currentUser,      \* this.currentUser of each context: 0 = null
    authStore,        \* store keys admin_token, admin_user, admin_token_expiry: 0 = absent
    events,           \* storage events queued for each context: the keys that changed
    todo,             \* store writes the handler running in each context has still to do
    pending,          \* the login / makeAuthenticatedRequest calls of each context in flight
    issued,           \* backend: the time each token was issued at, token k at issued[k]
    nAuthCalls,       \* login / makeAuthenticatedRequest calls started so far
    lastAuth          \* what the session operation of this step did and gave its caller

fieldVars == <<stripe, elements, paymentElement, paymentIntentId>>
histVars == <<settleLog, settledOk, unsettled>>
gatewayVars == <<intents, intentData>>
payVars == <<flow, stripe, elements, paymentElement, paymentIntentId, isProcessing,
             orderData, buttonDisabled, errorMsg, successMsg, lastOrder, redirect,
             form, inv, nCalls, settleLog, settledOk, unsettled, intents, intentData>>
cartVars == <<cart, loaded, lastOp, total, background>>
loadVars == <<now, packs, loading, calls, nLoads, lastReturn, utilCache, apiCache,
              intercepts>>
memoryVars == <<isAuthenticated, token, currentUser>>
authVars == <<contexts, clock, isAuthenticated, token, currentUser, authStore, events, todo,
              pending, issued, nAuthCalls, lastAuth>>
vars == <<payVars, cartVars, storage, loadVars, authVars>>

----------------------------------------------------------------------------
(* Bounds of the model *)

MaxCalls == 2      \* processPayment / processCartPayment invocations per page
MaxIntents == 1    \* payment intents created per page
MaxStored == 2     \* items of a persisted cart snapshot the page starts from
MaxQty == 3        \* an item is not added again once its quantity reaches this
MaxLoads == 2      \* loadPacks / getPackById / fetchWithCache calls per page
MaxTime == 5       \* minutes the page is followed for
MaxAuthCalls == 2  \* login / makeAuthenticatedRequest calls, all contexts together
MaxClock == 3      \* units of 12 hours the contexts are followed for

----------------------------------------------------------------------------
(* Values *)

NoData == "no-data"
OrderContents == {"order-A", "order-B"}   \* pack + customer, or cart items + customer
FirstOrder == "order-A"
NoOrder == <<"absent", 0>>
JsonUndefined == <<"undefined", 0>>       \* what setItem stores for JSON.stringify(undefined)
OrderOf(k) == <<"order", k>>              \* JSON of the order the backend returns for intent k
NoKey == [kind |-> "absent", items |-> <<>>]
Json(items) == [kind |-> "json", items |-> items]

\* Texts the orchestrators show
MsgNotInitialized == "Payment form not initialized"
MsgPayFallback == "Payment failed. Please try again."
MsgFormFailed == "Failed to create payment form. Please try again."
MsgConfirmFallback == "Failed to confirm payment"
MsgSuccess == "Payment successful! Your order has been created."
MsgCartNotInit == "Payment system not initialized"
MsgUnexpected == "An unexpected error occurred. Please try again."
MsgContactSupport == "Payment confirmation failed. Please contact support."
\* Texts the environment provides
GwDeclinedMsg == "Your card was declined."
GwUnexpectedStateMsg == "This PaymentIntent is in an unexpected state."
NetMsg == "Failed to fetch"

\* a || b on strings
OrElse(a, b) == IF a = "" THEN b ELSE a

\* The one persisted cart snapshot the checkout page starts from
CheckoutSnapshot == Json(<<[id |-> "a", name |-> "A", price |-> <<"num", 10>>,
                            quantity |-> <<"num", 1>>]>>)

\* JavaScript values of a cart item's fields.  A string field is its text, "" when
\* empty, Absent when the property is missing (undefined).  A price or quantity is
\* <<"num", n>>, <<"str", n>> (the decimal text of n), <<"nan", 0>>, <<"inf", 0>>,
\* <<"null", 0>> or <<"absent", 0>>.
Absent == "(absent)"
Num(n) == <<"num", n>>
Str(n) == <<"str", n>>
NaN == <<"nan", 0>>
Infinity == <<"inf", 0>>
NegInfinity == <<"ninf", 0>>
Text(digits) == <<"text", digits>>   \* a string given by the numbers whose texts it joins
Null == <<"null", 0>>
Undefined == <<"absent", 0>>
NoOp == [op |-> "none", id |-> Absent, rejected |-> FALSE]
NoTotal == <<"none", 0>>
Op(op, id, rejected) == [op |-> op, id |-> id, rejected |-> rejected]
Item(id, name, price, quantity) ==
    [id |-> id, name |-> name, price |-> price, quantity |-> quantity]

\* Data loading: URLs, collections, cache entries, results of calls
Options == {"A", "B"}                  \* two filter combinations of loadPacks
PackIds == {"p1", "p2"}
FallbackUrl == "/data/packs.json"
ApiUrl(opt) == IF opt = "A" THEN "/api/packs?A" ELSE "/api/packs?B"
PackUrl(id) == IF id = "p1" THEN "/api/packs/p1" ELSE "/api/packs/p2"
InventoryIds == {"p1"}                 \* the pack whose inventory the page shows
InventoryUrl(id) == IF id = "p1" THEN "/api/packs/p1/inventory" ELSE "/api/packs/p2/inventory"
Urls ==
    {ApiUrl(opt) : opt \in Options} \cup {PackUrl(id) : id \in PackIds} \cup {FallbackUrl}
        \cup {InventoryUrl(id) : id \in InventoryIds}
NoPacks == "empty"                     \* []
ApiPacks(opt) == IF opt = "A" THEN "api:A" ELSE "api:B"
FallbackPacks == "fallback"
CacheTimeout == 5                      \* PackSystemUtils.cacheTimeout, in minutes
ApiCacheTimeout == 5                   \* cacheTimeout of setupAPICaching, in minutes
NoEntry == [at |-> 0 - 1, data |-> "none"]
Entry(t, d) == [at |-> t, data |-> d]
NoReturn ==
    [op |-> "none", arg |-> "none", value |-> "none", raised |-> FALSE,
     api |-> "none", fallback |-> "none"]

\* Session manager: contexts, store keys, store writes, results of operations
Contexts == {1, 2}
tokenKey == "admin_token"
userKey == "admin_user"
tokenExpiryKey == "admin_token_expiry"
SessionKeys == {tokenKey, userKey, tokenExpiryKey}
SessionLifetime == 2                   \* 24 * 60 * 60 * 1000 ms, in units of 12 hours
NoSession == [k \in SessionKeys |-> 0]
Write(key, value) == [key |-> key, value |-> value]   \* setItem; removeItem when value = 0
\* found: what checkExistingSession found stored, or what the backend answered
NoAuth ==
    [ctx |-> 0, op |-> "none", value |-> "none", raised |-> FALSE, found |-> "none",
     notified |-> <<>>]
AuthResult(c, op, value, raised, found, notified) ==
    [ctx |-> c, op |-> op, value |-> value, raised |-> raised, found |-> found,
     notified |-> notified]
NotLoaded == [loaded |-> FALSE, cart |-> <<>>]

\* No AuthService has a session, one context is open
AuthAtRest ==
    /\ contexts = {1}
    /\ clock = 0
    /\ isAuthenticated = [c \in Contexts |-> FALSE]
    /\ token = [c \in Contexts |-> 0]
    /\ currentUser = [c \in Contexts |-> 0]
    /\ authStore = NoSession
    /\ events = [c \in Contexts |-> <<>>]
    /\ todo = [c \in Contexts |-> <<>>]
    /\ pending = [c \in Contexts |-> <<>>]
    /\ issued = <<>>
    /\ nAuthCalls = 0
    /\ lastAuth = NoAuth

\* No data-loading script has run
LoaderAtRest ==
    /\ now = 0
    /\ packs = NoPacks
    /\ loading = FALSE
    /\ calls = <<>>
    /\ nLoads = 0
    /\ lastReturn = NoReturn
    /\ utilCache = [u \in Urls |-> NoEntry]
    /\ apiCache = [u \in Urls |-> NoEntry]
    /\ intercepts = FALSE

----------------------------------------------------------------------------
(* Gateway: payment intents *)

IntentIds == 1..MaxIntents
Created == 1..Len(intents)

\* stripe.confirmPayment as the gateway answers it for intent k
GatewayConfirmOutcomes(k) ==
    IF intents[k] = "requires_confirmation"
    THEN {"declined", "ok_succeeded", "ok_processing", "throw"}
    ELSE {"unexpected_state", "throw"}

StatusAfterConfirm(k, out) ==
    CASE out = "ok_succeeded" -> "succeeded"
      [] out = "ok_processing" -> "processing"
      [] OTHER -> intents[k]

\* error.code and error.message of a confirmPayment result
ErrorCode(out) ==
    CASE out = "declined" -> "card_declined"
      [] out = "unexpected_state" -> "payment_intent_unexpected_state"
      [] OTHER -> ""
ErrorMessage(out) ==
    CASE out = "declined" -> GwDeclinedMsg
      [] out = "unexpected_state" -> GwUnexpectedStateMsg
      [] OTHER -> ""
HasError(out) == out \in {"declined", "unexpected_state"}
\* paymentIntent.status of a confirmPayment result without error
ResultStatus(out) ==
    CASE out = "ok_succeeded" -> "succeeded"
      [] out = "ok_processing" -> "processing"
      [] OTHER -> "undefined"

----------------------------------------------------------------------------
(* Invocations *)

NewInv ==
    [pc |-> "start",   \* awaiting: "retrieving", "confirming", "settling"
     target |-> 0,     \* intent the gateway call in flight is about
     resp |-> "none",  \* the gateway's answer, once it has processed the call
     sent |-> 0,       \* intent id of the settlement request it sent, 0 = none
     inner |-> FALSE]  \* that request was sent inside the try around retrievePaymentIntent

InFlight == 1..Len(inv)
Alive == redirect # "done"

\* An invocation starts by a click on the submit control or by a direct call
Triggers == {"click", "call"}
CanTrigger(via) == via = "click" => ~buttonDisabled

\* The invocations in flight once invocation i has returned
Without(i) == SubSeq(inv, 1, i - 1) \o SubSeq(inv, i + 1, Len(inv))

\* A settlement request as the history keeps it: the intent it names, what the gateway
\* had reported when it was sent, and whether it carries the order contents the intent
\* was created with
Request(k, basis, d) ==
    [intent |-> k, basis |-> basis,
     sameData |-> (k \in 1..Len(intentData) /\ intentData[k] = d)]
RequestsFor(k) == {r \in settleLog : r.intent = k}

----------------------------------------------------------------------------
(* createPaymentForm / createCartPaymentForm *)

\* An invocation calls stripe.confirmPayment in this step
ConfirmationSent ==
    /\ Len(inv') >= Len(inv)
    /\ \E i \in DOMAIN inv' :
         /\ inv'[i].pc = "confirming"
         /\ inv'[i].resp = "none"
         /\ i \in DOMAIN inv => inv[i].pc # "confirming"


\* No form call in progress.  returned is history: what the last form call gave its
\* caller, kept until a confirmation is next sent to the gateway
FormIdle == [pc |-> "idle", data |-> NoData, returned |-> "none"]
FormReturned(value) == [FormIdle EXCEPT !.returned = value]
Forgotten == [form EXCEPT !.returned = "none"]

\* The form call starts: initializeStripe when this.stripe is not set, else the
\* intent request is sent at once.  The order contents are interchangeable, so the
\* first intent is created for FirstOrder without loss of generality.
FormStart(d) ==
    /\ Alive
    /\ form.pc = "idle"
    /\ Len(intents) < MaxIntents
    /\ Len(intents) = 0 => d = FirstOrder
    /\ form' = [pc |-> IF stripe THEN "intent" ELSE "config", data |-> d,
                returned |-> "none"]
    /\ UNCHANGED <<flow, fieldVars, isProcessing, orderData, buttonDisabled, errorMsg,
                   successMsg, lastOrder, redirect, inv, nCalls, histVars, gatewayVars,
                   cartVars, loadVars, storage, authVars>>

\* StripePayment.initializeStripe: a failed config request falls back to the built-in
\* key; only Stripe() itself failing ("nolib") ends the call.
PackInitializes(out) == out \in {"ok", "fail"}
\* CartStripePayment.initializeStripe: needs Stripe.js and config.success
CartInitializes(out) == out = "ok"

FormConfig(out) ==
    /\ Alive
    /\ form.pc = "config"
    /\ LET initialized == IF flow = "pack" THEN PackInitializes(out) ELSE CartInitializes(out)
       IN  /\ stripe' = (stripe \/ initialized)
           /\ form' = IF initialized THEN [form EXCEPT !.pc = "intent"]
                      ELSE FormReturned("false")
           /\ errorMsg' = IF ~initialized /\ flow = "pack" THEN MsgFormFailed ELSE errorMsg
    /\ UNCHANGED <<flow, elements, paymentElement, paymentIntentId, isProcessing,
                   orderData, buttonDisabled, successMsg, lastOrder, redirect,
                   inv, nCalls, histVars, gatewayVars, cartVars, loadVars, storage,
                   authVars>>

\* The answer to POST /payments/create-intent or /payments/create-cart-intent.
\* "ok": intent created, form mounted; "nocontainer": intent created, the container
\* element is missing; "fail": success=false or the request failed.
FormIntent(out) ==
    /\ Alive
    /\ form.pc = "intent"
    /\ IF out \in {"ok", "nocontainer"}
       THEN LET k == Len(intents) + 1
            IN  /\ intents' = Append(intents, "requires_confirmation")
                /\ intentData' = Append(intentData, form.data)
                /\ paymentIntentId' = k
                /\ elements' = k
                /\ paymentElement' = TRUE
       ELSE UNCHANGED <<intents, intentData, paymentIntentId, elements, paymentElement>>
    /\ form' = FormReturned(IF out = "ok" THEN "true" ELSE "false")
    /\ errorMsg' = IF out # "ok" /\ flow = "pack" THEN MsgFormFailed ELSE errorMsg
    /\ UNCHANGED <<flow, stripe, isProcessing, orderData, buttonDisabled, successMsg,
                   lastOrder, redirect, inv, nCalls, histVars, cartVars,
                   loadVars, storage, authVars>>

\* StripePayment.setPaymentData; for CartStripePayment the page assigns the
\* cartData and customerData fields, which the class itself only initialises to null.
SetPaymentData(d) ==
    /\ Alive
    /\ orderData # d
    /\ orderData' = d
    /\ UNCHANGED <<flow, fieldVars, isProcessing, buttonDisabled, errorMsg, successMsg,
                   lastOrder, redirect, form, inv, nCalls, histVars, gatewayVars,
                   cartVars, loadVars, storage, authVars>>

----------------------------------------------------------------------------
(* The gateway *)

\* The gateway processes the confirmPayment call of invocation i.
GatewayConfirm(i) ==
    /\ Alive
    /\ inv[i].pc = "confirming"
    /\ inv[i].resp = "none"
    /\ \E out \in GatewayConfirmOutcomes(inv[i].target) :
         /\ intents' = [intents EXCEPT ![inv[i].target] = StatusAfterConfirm(inv[i].target, out)]
         /\ inv' = [inv EXCEPT ![i].resp = out]
    /\ UNCHANGED <<flow, fieldVars, isProcessing, orderData, buttonDisabled, errorMsg,
                   successMsg, lastOrder, redirect, form, nCalls, histVars, intentData,
                   cartVars, loadVars, storage, authVars>>

\* An intent the gateway is still processing reaches its final status.
GatewayAdvance(k) ==
    /\ Alive
    /\ intents[k] = "processing"
    /\ \E st \in {"succeeded", "failed"} : intents' = [intents EXCEPT ![k] = st]
    /\ UNCHANGED <<flow, fieldVars, isProcessing, orderData, buttonDisabled, errorMsg,
                   successMsg, lastOrder, redirect, form, inv, nCalls, histVars,
                   intentData, cartVars, loadVars, storage, authVars>>

\* The backend's answer to a settlement request: the request failed ("netfail"),
\* success=false with or without result.error, success with an order or without one.
SettleOutcomes == {"netfail", "fail", "fail_bare", "ok", "ok_noorder"}
SettleSucceeded(out) == out \in {"ok", "ok_noorder"}
BackendError(out) == IF out = "fail" THEN "Payment not completed" ELSE ""

\* The backend processes the settlement request of invocation i.
BackendSettle(i) ==
    /\ Alive
    /\ inv[i].pc = "settling"
    /\ inv[i].resp = "none"
    /\ \E out \in SettleOutcomes : inv' = [inv EXCEPT ![i].resp = out]
    /\ UNCHANGED <<flow, fieldVars, isProcessing, orderData, buttonDisabled, errorMsg,
                   successMsg, lastOrder, redirect, form, nCalls, histVars, gatewayVars,
                   cartVars, loadVars, storage, authVars>>

\* The armed redirect timer fires / the started navigation completes: the page is gone.
Redirect ==
    /\ redirect = "pending"
    /\ redirect' = "done"
    /\ UNCHANGED <<flow, fieldVars, isProcessing, orderData, buttonDisabled, errorMsg,
                   successMsg, lastOrder, form, inv, nCalls, histVars, gatewayVars,
                   cartVars, loadVars, storage, authVars>>

----------------------------------------------------------------------------
(* StripePayment.processPayment *)

\* if (this.isProcessing) return;
PackGuard(busy) == busy

\* if (error.code === 'payment_intent_unexpected_state')
PackRoutesNoneMutant(code) == FALSE
PackRoutesAllMutant(code) == TRUE
PackRoutesToSettlement(code) == code = "payment_intent_unexpected_state"

\* finally { this.isProcessing = false; this.showProcessing(false); }
PackFinally ==
    /\ isProcessing' = FALSE
    /\ buttonDisabled' = FALSE

\* catch (error) { this.showError(error.message || 'Payment failed. Please try again.') }
\* and the invocation returns through finally
PackCatch(i, message) ==
    /\ errorMsg' = OrElse(message, MsgPayFallback)
    /\ inv' = Without(i)
    /\ PackFinally

\* confirmPaymentWithBackend up to its fetch: the settlement request leaves with the
\* current this.paymentIntentId and this.packData / this.customerData.
PackSendSettle(i, basis) ==
    /\ inv' = [inv EXCEPT ![i] = [@ EXCEPT !.pc = "settling", !.resp = "none",
                                           !.sent = paymentIntentId,
                                           !.inner = (basis = "retrieved_succeeded")]]
    /\ settleLog' = settleLog \cup {Request(paymentIntentId, basis, orderData)}
    /\ UNCHANGED <<isProcessing, buttonDisabled, errorMsg>>

PackStart(via) ==
    /\ Alive
    /\ flow = "pack"
    /\ nCalls < MaxCalls
    /\ CanTrigger(via)
    /\ nCalls' = nCalls + 1
    /\ IF PackGuard(isProcessing)
       THEN UNCHANGED <<inv, isProcessing, buttonDisabled, errorMsg>>
       ELSE IF ~stripe \/ elements = 0
       THEN \* throw new Error('Payment form not initialized'), caught at once
            /\ errorMsg' = MsgNotInitialized
            /\ PackFinally
            /\ UNCHANGED inv
       ELSE /\ isProcessing' = TRUE
            /\ buttonDisabled' = TRUE
            /\ inv' = Append(inv, IF paymentIntentId # 0
                                  THEN [NewInv EXCEPT !.pc = "retrieving",
                                                           !.target = paymentIntentId]
                                  ELSE [NewInv EXCEPT !.pc = "confirming",
                                                           !.target = elements])
            /\ UNCHANGED errorMsg
    /\ form' = IF ConfirmationSent THEN Forgotten ELSE form
    /\ UNCHANGED <<flow, fieldVars, orderData, successMsg, lastOrder, redirect,
                   histVars, gatewayVars, cartVars, loadVars, storage, authVars>>

\* What stripe.retrievePaymentIntent(this.paymentIntentId) gives for .status: the
\* intent's status, no status field at all, or a rejection.
RetrieveOutcomes(k) == {intents[k], "undefined", "throw"}

PackRetrieveReturn(i) ==
    /\ Alive
    /\ flow = "pack"
    /\ inv[i].pc = "retrieving"
    /\ \E r \in RetrieveOutcomes(inv[i].target) :
         IF r = "succeeded"
         THEN PackSendSettle(i, "retrieved_succeeded")
         ELSE /\ inv' = [inv EXCEPT ![i] = [@ EXCEPT !.pc = "confirming",
                                                     !.target = elements]]
              /\ UNCHANGED <<isProcessing, buttonDisabled, errorMsg, settleLog>>
    /\ form' = IF ConfirmationSent THEN Forgotten ELSE form
    /\ UNCHANGED <<flow, fieldVars, orderData, successMsg, lastOrder, redirect,
                   nCalls, settledOk, unsettled, gatewayVars, cartVars,
                   loadVars, storage, authVars>>

PackConfirmReturn(i) ==
    /\ Alive
    /\ flow = "pack"
    /\ inv[i].pc = "confirming"
    /\ inv[i].resp # "none"
    /\ LET out == inv[i].resp
       IN  IF out = "throw"
           THEN PackCatch(i, NetMsg) /\ UNCHANGED settleLog
           ELSE IF HasError(out) /\ ~PackRoutesToSettlement(ErrorCode(out))
           THEN PackCatch(i, ErrorMessage(out)) /\ UNCHANGED settleLog
           ELSE PackSendSettle(i, out)
    /\ UNCHANGED <<flow, fieldVars, orderData, successMsg, lastOrder, redirect, form,
                   nCalls, settledOk, unsettled, gatewayVars, cartVars,
                   loadVars, storage, authVars>>

PackSettleReturn(i) ==
    /\ Alive
    /\ flow = "pack"
    /\ inv[i].pc = "settling"
    /\ inv[i].resp # "none"
    /\ LET out == inv[i].resp
       IN
         /\ IF SettleSucceeded(out)
            THEN /\ lastOrder' = IF out = "ok" THEN OrderOf(inv[i].sent) ELSE lastOrder
                 /\ successMsg' = MsgSuccess
                 /\ redirect' = "pending"
                 /\ settledOk' = settledOk \cup {inv[i].sent}
                 /\ inv' = Without(i)
                 /\ PackFinally
                 /\ UNCHANGED <<errorMsg, unsettled>>
            ELSE IF inv[i].inner
            THEN \* the catch around retrievePaymentIntent takes the error, logs it,
                 \* and processPayment goes on to stripe.confirmPayment
                 /\ inv' = [inv EXCEPT ![i] = [@ EXCEPT !.pc = "confirming",
                                                        !.target = elements,
                                                        !.resp = "none",
                                                        !.inner = FALSE]]
                 /\ unsettled' = unsettled \cup {inv[i].sent}
                 /\ UNCHANGED <<isProcessing, buttonDisabled, errorMsg, lastOrder,
                                successMsg, redirect, settledOk>>
            ELSE /\ PackCatch(i, IF out = "netfail" THEN NetMsg
                                 ELSE OrElse(BackendError(out), MsgConfirmFallback))
                 /\ unsettled' = unsettled \cup {inv[i].sent}
                 /\ UNCHANGED <<lastOrder, successMsg, redirect, settledOk>>
    /\ form' = IF ConfirmationSent THEN Forgotten ELSE form
    /\ UNCHANGED <<flow, fieldVars, orderData, nCalls, settleLog, gatewayVars,
                   cartVars, loadVars, storage, authVars>>

----------------------------------------------------------------------------
(* CartStripePayment.processCartPayment / confirmCartPayment *)

\* finally { paymentButton.disabled = false; ... }
CartFinally == buttonDisabled' = FALSE

\* this.showError(message), and the invocation returns
CartShowError(i, message) ==
    /\ errorMsg' = message
    /\ inv' = Without(i)

\* if (paymentIntent.status === 'succeeded')
CartSettlesOn(status) == status = "succeeded"

\* if (result.success) { setItem('kv-garage-last-order'); removeItem('kv-garage-cart'); ... }
CartCommitsAlwaysMutant(out) == TRUE
CartCommitsOn(out) == SettleSucceeded(out)

CartStart(via) ==
    /\ Alive
    /\ flow = "cart"
    /\ nCalls < MaxCalls
    /\ CanTrigger(via)
    /\ nCalls' = nCalls + 1
    /\ IF ~stripe \/ ~paymentElement
       THEN /\ errorMsg' = MsgCartNotInit
            /\ UNCHANGED <<inv, buttonDisabled>>
       ELSE /\ buttonDisabled' = TRUE
            /\ inv' = Append(inv, [NewInv EXCEPT !.pc = "confirming",
                                                      !.target = elements])
            /\ UNCHANGED errorMsg
    /\ form' = IF ConfirmationSent THEN Forgotten ELSE form
    /\ UNCHANGED <<flow, fieldVars, isProcessing, orderData, successMsg, lastOrder,
                   redirect, histVars, gatewayVars, cartVars, loadVars, storage,
                   authVars>>

CartConfirmReturn(i) ==
    /\ Alive
    /\ flow = "cart"
    /\ inv[i].pc = "confirming"
    /\ inv[i].resp # "none"
    /\ LET out == inv[i].resp
       IN  IF out = "throw"
           THEN CartShowError(i, MsgUnexpected) /\ CartFinally /\ UNCHANGED settleLog
           ELSE IF HasError(out)
           THEN CartShowError(i, ErrorMessage(out)) /\ CartFinally /\ UNCHANGED settleLog
           ELSE IF CartSettlesOn(ResultStatus(out))
           THEN \* confirmCartPayment(paymentIntent.id): this.customerData.email throws
                \* when the field is null, before the request is built
                IF orderData = NoData
                THEN CartShowError(i, MsgContactSupport) /\ CartFinally
                     /\ UNCHANGED settleLog
                ELSE /\ inv' = [inv EXCEPT ![i] = [@ EXCEPT !.pc = "settling",
                                                            !.resp = "none",
                                                            !.sent = inv[i].target]]
                     /\ settleLog' = settleLog \cup {Request(inv[i].target, out, orderData)}
                     /\ UNCHANGED <<buttonDisabled, errorMsg>>
           ELSE /\ inv' = Without(i)
                /\ CartFinally
                /\ UNCHANGED <<errorMsg, settleLog>>
    /\ UNCHANGED <<flow, fieldVars, isProcessing, orderData, successMsg, lastOrder,
                   redirect, form, nCalls, settledOk, unsettled, gatewayVars,
                   cartVars, loadVars, storage, authVars>>

CartSettleReturn(i) ==
    /\ Alive
    /\ flow = "cart"
    /\ inv[i].pc = "settling"
    /\ inv[i].resp # "none"
    /\ LET out == inv[i].resp
       IN
         /\ IF CartCommitsOn(out)
            THEN /\ lastOrder' = IF out = "ok" THEN OrderOf(inv[i].sent) ELSE JsonUndefined
                 /\ storage' = NoKey
            ELSE UNCHANGED <<lastOrder, storage>>
         /\ IF out = "ok"
            THEN \* window.location.href = '/cart-checkout-success/?order_id=...'
                 /\ redirect' = "pending"
                 /\ inv' = Without(i)
                 /\ UNCHANGED errorMsg
            ELSE \* result.order.id of a missing order throws; so does success=false
                 /\ CartShowError(i, MsgContactSupport)
                 /\ UNCHANGED redirect
         /\ IF SettleSucceeded(out)
            THEN settledOk' = settledOk \cup {inv[i].sent} /\ UNCHANGED unsettled
            ELSE unsettled' = unsettled \cup {inv[i].sent} /\ UNCHANGED settledOk
         /\ CartFinally
    /\ UNCHANGED <<flow, fieldVars, isProcessing, orderData, successMsg, form, nCalls,
                   settleLog, gatewayVars, cartVars, loadVars, authVars>>

----------------------------------------------------------------------------
(* The payment page *)

InitPay ==
    /\ flow \in {"pack", "cart"}
    /\ stripe = FALSE
    /\ elements = 0
    /\ paymentElement = FALSE
    /\ paymentIntentId = 0
    /\ isProcessing = FALSE
    /\ orderData = NoData
    /\ buttonDisabled = FALSE
    /\ errorMsg = ""
    /\ successMsg = ""
    /\ lastOrder = NoOrder
    /\ redirect = "none"
    /\ form = FormIdle
    /\ inv = <<>>
    /\ nCalls = 0
    /\ settleLog = {}
    /\ settledOk = {}
    /\ unsettled = {}
    /\ intents = <<>>
    /\ intentData = <<>>
    /\ cart = <<>>
    /\ loaded = FALSE
    /\ lastOp = NoOp
    /\ total = NoTotal
    /\ background = NotLoaded
    /\ LoaderAtRest
    /\ AuthAtRest
    /\ storage = CheckoutSnapshot

NextPay ==
    \/ \E d \in OrderContents : FormStart(d)
    \/ \E out \in {"ok", "fail", "nolib"} : FormConfig(out)
    \/ \E out \in {"ok", "nocontainer", "fail"} : FormIntent(out)
    \/ \E d \in OrderContents : SetPaymentData(d)
    \/ \E i \in InFlight : GatewayConfirm(i)
    \/ \E k \in Created : GatewayAdvance(k)
    \/ \E i \in InFlight : BackendSettle(i)
    \/ Redirect
    \/ \E via \in Triggers : PackStart(via)
    \/ \E i \in InFlight : PackRetrieveReturn(i)
    \/ \E i \in InFlight : PackConfirmReturn(i)
    \/ \E i \in InFlight : PackSettleReturn(i)
    \/ \E via \in Triggers : CartStart(via)
    \/ \E i \in InFlight : CartConfirmReturn(i)
    \/ \E i \in InFlight : CartSettleReturn(i)

SpecPay == InitPay /\ [][NextPay]_vars

----------------------------------------------------------------------------
(* GlobalCart: JavaScript operators on the modelled values *)

\* !!s for a string or missing property
Truthy(s) == s \notin {"", Absent}

\* typeof v === 'number'
IsNumberType(v) == v[1] \in {"num", "nan", "inf", "ninf"}

\* isNaN(v): Number(v) is NaN
IsNaN(v) == v[1] \in {"nan", "absent"}

\* v > 0, the operand converted with Number()
GreaterThanZero(v) ==
    CASE v[1] \in {"num", "str"} -> v[2] > 0
      [] v[1] = "inf" -> TRUE
      [] OTHER -> FALSE

\* v += 1: numeric addition for a number, concatenation with "1" for a string
PlusOne(v) ==
    CASE v[1] = "num" -> Num(v[2] + 1)
      [] v[1] = "str" -> Str(10 * v[2] + 1)
      [] v[1] = "null" -> Num(1)
      [] v[1] \in {"inf", "ninf"} -> v
      [] OTHER -> NaN

\* parseFloat(button.dataset.packPrice)
ParseFloat(raw) ==
    CASE raw[1] = "str" -> Num(raw[2])
      [] raw[1] = "inf" -> Infinity
      [] OTHER -> NaN

\* JSON.stringify then JSON.parse of a field: NaN and Infinity become null
JsonValue(v) == IF v[1] \in {"nan", "inf", "ninf"} THEN Null ELSE v
JsonItem(it) == [it EXCEPT !.price = JsonValue(it.price), !.quantity = JsonValue(it.quantity)]
Stringify(items) == Json([n \in 1..Len(items) |-> JsonItem(items[n])])

\* Array.prototype.find as an index: the first match, 0 when there is none
FindIndex(items, id) ==
    IF \E n \in 1..Len(items) : items[n].id = id
    THEN CHOOSE n \in 1..Len(items) :
            /\ items[n].id = id
            /\ \A m \in 1..(n - 1) : items[m].id # id
    ELSE 0

\* Number(v), the conversion the arithmetic operators apply
ToNumber(v) ==
    CASE v[1] \in {"num", "inf", "ninf", "nan"} -> v
      [] v[1] = "str" -> Num(v[2])
      [] v[1] = "null" -> Num(0)
      [] OTHER -> NaN

IsString(v) == v[1] \in {"str", "text"}

\* The pieces whose decimal texts, joined, are String(v)
Pieces(v) ==
    CASE v[1] = "text" -> v[2]
      [] v[1] = "str" -> <<Num(v[2])>>
      [] OTHER -> <<v>>

\* a * b
Times(a, b) ==
    LET x == ToNumber(a)
        y == ToNumber(b)
        Negative(z) == z[1] = "ninf" \/ (z[1] = "num" /\ z[2] < 0)
    IN  CASE x[1] = "nan" \/ y[1] = "nan" -> NaN
          [] x[1] = "num" /\ y[1] = "num" -> Num(x[2] * y[2])
          [] x = Num(0) \/ y = Num(0) -> NaN
          [] OTHER -> IF Negative(x) = Negative(y) THEN Infinity ELSE NegInfinity

\* a + b: concatenation when either operand is a string, else numeric addition
Plus(a, b) ==
    IF IsString(a) \/ IsString(b)
    THEN Text(Pieces(a) \o Pieces(b))
    ELSE LET x == ToNumber(a)
             y == ToNumber(b)
         IN  CASE x[1] = "nan" \/ y[1] = "nan" -> NaN
               [] x[1] = "num" /\ y[1] = "num" -> Num(x[2] + y[2])
               [] x[1] = "num" -> y
               [] y[1] = "num" -> x
               [] OTHER -> IF x = y THEN x ELSE NaN

----------------------------------------------------------------------------
(* GlobalCart *)

\* cleanupCorruptedItems' test of one item
IsValidItem(it) ==
    /\ Truthy(it.id)
    /\ Truthy(it.name)
    /\ IsNumberType(it.price)
    /\ ~IsNaN(it.price)
    /\ GreaterThanZero(it.quantity)

\* cart.filter(...): the items passing the test, in their order
ValidItems(items) == SelectSeq(items, IsValidItem)

\* saveCart: the full snapshot replaces the stored one
SaveCart(items) == storage' = Stringify(items)

\* loadCart with cleanupCorruptedItems: an absent key gives [], text that does not
\* parse to an array gives [] through the catch; a cleaned cart is saved at once
LoadCart ==
    IF storage.kind = "json"
    THEN /\ cart' = ValidItems(storage.items)
         /\ IF Len(ValidItems(storage.items)) # Len(storage.items)
            THEN SaveCart(ValidItems(storage.items))
            ELSE UNCHANGED storage
    ELSE /\ cart' = <<>>
         /\ UNCHANGED storage

\* new GlobalCart() on DOMContentLoaded of a page
Construct ==
    /\ LoadCart
    /\ loaded' = TRUE
    /\ lastOp' = Op("loadCart", Absent, FALSE)
    /\ total' = NoTotal
    /\ UNCHANGED <<payVars, loadVars, authVars, background>>

\* The data attributes of an add-to-cart button
Button(id, name, rawPrice) == [id |-> id, name |-> name, rawPrice |-> rawPrice]

\* if (!packId || !packName || isNaN(packPrice))
Rejects(button) ==
    \/ ~Truthy(button.id)
    \/ ~Truthy(button.name)
    \/ IsNaN(ParseFloat(button.rawPrice))

\* existingItem.quantity += 1
Increment(items, n) == [items EXCEPT ![n].quantity = PlusOne(@)]

AddToCart(button) ==
    /\ loaded
    /\ IF Rejects(button)
       THEN UNCHANGED <<cart, storage>>
       ELSE LET n == FindIndex(cart, button.id)
            IN  /\ n # 0 => cart[n].quantity[2] < MaxQty
                /\ cart' = IF n # 0
                           THEN Increment(cart, n)
                           ELSE Append(cart, Item(button.id, button.name,
                                                  ParseFloat(button.rawPrice), Num(1)))
                /\ SaveCart(cart')
    /\ lastOp' = Op("addToCart", button.id, Rejects(button))
    /\ total' = NoTotal
    /\ UNCHANGED <<loaded, payVars, loadVars, authVars, background>>

RemoveFromCartSavesOnRemovalMutant(itemId) ==
    /\ loaded
    /\ LET Keep(it) == it.id # itemId
       IN  cart' = SelectSeq(cart, Keep)
    /\ IF cart' # cart THEN SaveCart(cart') ELSE UNCHANGED storage
    /\ lastOp' = Op("removeFromCart", itemId, FALSE)
    /\ total' = NoTotal
    /\ UNCHANGED <<loaded, payVars, loadVars, authVars, background>>

RemoveFromCart(itemId) ==
    /\ loaded
    /\ LET Keep(it) == it.id # itemId
       IN  cart' = SelectSeq(cart, Keep)
    /\ SaveCart(cart')
    /\ lastOp' = Op("removeFromCart", itemId, FALSE)
    /\ total' = NoTotal
    /\ UNCHANGED <<loaded, payVars, loadVars, authVars, background>>

ClearCart ==
    /\ loaded
    /\ cart' = <<>>
    /\ SaveCart(cart')
    /\ lastOp' = Op("clearCart", Absent, FALSE)
    /\ total' = NoTotal
    /\ UNCHANGED <<loaded, payVars, loadVars, authVars, background>>

\* this.cart.reduce((total, item) => total + item.quantity, 0), from item n on
RECURSIVE ReduceItems(_, _, _)
ReduceItems(items, n, acc) ==
    IF n > Len(items) THEN acc
    ELSE ReduceItems(items, n + 1, Plus(acc, items[n].quantity))

\* this.cart.reduce((total, item) => total + (item.price * item.quantity), 0)
RECURSIVE ReducePrice(_, _, _)
ReducePrice(items, n, acc) ==
    IF n > Len(items) THEN acc
    ELSE ReducePrice(items, n + 1, Plus(acc, Times(items[n].price, items[n].quantity)))

TotalItems(items) == ReduceItems(items, 1, Num(0))
TotalPrice(items) == ReducePrice(items, 1, Num(0))

GetTotalItems ==
    /\ loaded
    /\ total' = TotalItems(cart)
    /\ lastOp' = Op("getTotalItems", Absent, FALSE)
    /\ UNCHANGED <<cart, storage, loaded, payVars, loadVars, authVars, background>>

GetTotalPrice ==
    /\ loaded
    /\ total' = TotalPrice(cart)
    /\ lastOp' = Op("getTotalPrice", Absent, FALSE)
    /\ UNCHANGED <<cart, storage, loaded, payVars, loadVars, authVars, background>>

\* debugCleanCart: this.cart = this.cleanupCorruptedItems(this.cart)
DebugCleanCart ==
    /\ loaded
    /\ cart' = ValidItems(cart)
    /\ IF Len(ValidItems(cart)) # Len(cart) THEN SaveCart(cart') ELSE UNCHANGED storage
    /\ lastOp' = Op("debugCleanCart", Absent, FALSE)
    /\ total' = NoTotal
    /\ UNCHANGED <<loaded, payVars, loadVars, authVars, background>>

----------------------------------------------------------------------------
(* The cart pages *)

\* Items a persisted snapshot may hold: well-formed ones and the malformed kinds
StoredItems ==
    {Item("a", "A", Num(10), Num(1)),
     Item("b", "B", Num(5), Num(2)),
     Item("a", "A", Num(10), Str(2)),
     Item(Absent, "A", Num(10), Num(1)),
     Item("b", "", Num(5), Num(1)),
     Item("a", "A", Str(10), Num(1)),
     Item("b", "B", Num(0 - 5), Num(1)),
     Item("a", "A", Num(10), Num(0)),
     Item("b", "B", Null, Num(1)),
     Item("b", "B", Infinity, Num(1)),
     Item(Absent, Absent, Undefined, Undefined)}

Snapshots ==
    UNION {[1..n -> StoredItems] : n \in 0..MaxStored}

\* The add-to-cart buttons of the pages
Buttons ==
    {Button("a", "A", Str(10)),
     Button("b", "B", Str(5)),
     Button("b", "B", Str(0 - 5)),
     Button("a", "A", <<"inf", 0>>),
     Button("a", "A", <<"text", 0>>),
     Button(Absent, "A", Str(10)),
     Button("b", "", Str(5))}

ItemIds == {"a", "b", "c"}

InitCart ==
    /\ storage \in {NoKey, [kind |-> "garbage", items |-> <<>>]}
                      \cup {Json(items) : items \in Snapshots}
    /\ cart = <<>>
    /\ loaded = FALSE
    /\ lastOp = NoOp
    /\ total = NoTotal
    /\ background = NotLoaded
    /\ LoaderAtRest
    /\ AuthAtRest
    /\ flow = "cart"
    /\ stripe = FALSE
    /\ elements = 0
    /\ paymentElement = FALSE
    /\ paymentIntentId = 0
    /\ isProcessing = FALSE
    /\ orderData = NoData
    /\ buttonDisabled = FALSE
    /\ errorMsg = ""
    /\ successMsg = ""
    /\ lastOrder = NoOrder
    /\ redirect = "none"
    /\ form = FormIdle
    /\ inv = <<>>
    /\ nCalls = 0
    /\ settleLog = {}
    /\ settledOk = {}
    /\ unsettled = {}
    /\ intents = <<>>
    /\ intentData = <<>>

NextCart ==
    \/ Construct
    \/ \E button \in Buttons : AddToCart(button)
    \/ \E itemId \in ItemIds : RemoveFromCart(itemId)
    \/ ClearCart
    \/ DebugCleanCart
    \/ GetTotalItems
    \/ GetTotalPrice

SpecCart == InitCart /\ [][NextCart]_vars

\* The user turns to the other tab of the site: each tab has its own GlobalCart, built
\* by that tab's DOMContentLoaded; the tabs share nothing but localStorage
SwitchTab ==
    /\ loaded
    /\ background' = [loaded |-> loaded, cart |-> cart]
    /\ loaded' = background.loaded
    /\ cart' = background.cart
    /\ lastOp' = NoOp
    /\ total' = NoTotal
    /\ UNCHANGED <<storage, payVars, loadVars, authVars>>

NextCartTabs ==
    \/ NextCart
    \/ SwitchTab

\* Both tabs are opened on a browser that holds no cart yet
InitCartTabs ==
    /\ InitCart
    /\ storage = NoKey

SpecCartTabs == InitCartTabs /\ [][NextCartTabs]_vars

----------------------------------------------------------------------------
(* window.fetch, with the interceptor of PerformanceOptimizer.setupAPICaching *)

\* cached && Date.now() - cached.timestamp < timeout
FreshAtTimeoutMutant(entry, timeout) == entry # NoEntry /\ now - entry.at <= timeout
Fresh(entry, timeout) == entry # NoEntry /\ now - entry.at < timeout

\* The interceptor answers a GET from apiCache instead of calling originalFetch
InterceptorHit(url) == intercepts /\ Fresh(apiCache[url], ApiCacheTimeout)

\* What a request can be answered with: 2xx with the data asked for ("ok"), 2xx with
\* JSON that lacks it ("ok_empty"), a non-2xx status, a network failure, 2xx with a
\* body that is not JSON
NetOutcomes == {"ok", "ok_empty", "notok", "neterr", "badjson"}
IsOk(out) == out \in {"ok", "ok_empty"}
Stored(out) == IF out = "ok" THEN "data" ELSE "nodata"

\* A call in flight: the operation and its argument, the request it awaits, whether
\* the interceptor answers that request from apiCache (and with what), and what the
\* API answered to the call before it went on to the fallback
NewCall(op, arg, pc, url) ==
    [op |-> op, arg |-> arg, pc |-> pc, url |-> url,
     hit |-> InterceptorHit(url),
     cached |-> IF InterceptorHit(url) THEN apiCache[url].data ELSE "none",
     api |-> "none"]

Waiting == 1..Len(calls)
Answers(c) ==
    IF c.hit THEN {IF c.cached = "data" THEN "ok" ELSE "ok_empty"} ELSE NetOutcomes

\* The interceptor caches a successful GET response that came from the network
InterceptorStore(c, out) ==
    apiCache' = IF intercepts /\ ~c.hit /\ IsOk(out)
                THEN [apiCache EXCEPT ![c.url] = Entry(now, Stored(out))]
                ELSE apiCache

\* The calls in flight once call i has returned
Finished(i) == SubSeq(calls, 1, i - 1) \o SubSeq(calls, i + 1, Len(calls))

\* What a call gives its caller without having awaited anything
ReturnAtOnce(op, arg, value) ==
    [op |-> op, arg |-> arg, value |-> value, raised |-> FALSE,
     api |-> "none", fallback |-> "none"]

\* What a call gives its caller after the requests it awaited
Return(c, value, raised, fallback) ==
    [op |-> c.op, arg |-> c.arg, value |-> value, raised |-> raised,
     api |-> c.api, fallback |-> fallback]

----------------------------------------------------------------------------
(* PackLoader *)

\* The ids of the packs of a collection
IdsOf(collection) ==
    CASE collection = "api:A" -> {"p1"}
      [] collection = "api:B" -> {"p2"}
      [] collection = "fallback" -> {"p1"}
      [] OTHER -> {}

\* loadPacks(options) up to its first await
LoadPacksStart(opt) ==
    /\ nLoads < MaxLoads
    /\ nLoads' = nLoads + 1
    /\ IF loading
       THEN /\ lastReturn' = ReturnAtOnce("loadPacks", opt, packs)
            /\ UNCHANGED <<calls, loading>>
       ELSE /\ loading' = TRUE
            /\ calls' = Append(calls, NewCall("loadPacks", opt, "api", ApiUrl(opt)))
            /\ lastReturn' = NoReturn
    /\ UNCHANGED <<now, packs, utilCache, apiCache, intercepts, payVars, cartVars, storage,
                   authVars>>

\* loadPacks after loadFromAPI: a non-empty collection is stored and returned from inside
\* the first try, which has no finally; anything else goes on to loadFromJSON
LoadPacksApiReturn(i) ==
    /\ calls[i].op = "loadPacks"
    /\ calls[i].pc = "api"
    /\ \E out \in Answers(calls[i]) :
         /\ InterceptorStore(calls[i], out)
         /\ IF out = "ok"
            THEN /\ packs' = ApiPacks(calls[i].arg)
                 /\ calls' = Finished(i)
                 /\ lastReturn' = Return([calls[i] EXCEPT !.api = out],
                                         ApiPacks(calls[i].arg), FALSE, "none")
            ELSE /\ calls' = [calls EXCEPT ![i] =
                                [NewCall("loadPacks", calls[i].arg, "fallback", FallbackUrl)
                                    EXCEPT !.api = out]]
                 /\ lastReturn' = NoReturn
                 /\ UNCHANGED packs
    /\ UNCHANGED <<now, loading, nLoads, utilCache, intercepts, payVars, cartVars, storage,
                   authVars>>

\* loadPacks after loadFromJSON, with its catch and finally
LoadPacksFallbackReturn(i) ==
    /\ calls[i].op = "loadPacks"
    /\ calls[i].pc = "fallback"
    /\ \E out \in Answers(calls[i]) :
         /\ InterceptorStore(calls[i], out)
         /\ packs' = IF out = "ok" THEN FallbackPacks ELSE NoPacks
         /\ lastReturn' = Return(calls[i], packs', FALSE, out)
    /\ loading' = FALSE
    /\ calls' = Finished(i)
    /\ UNCHANGED <<now, nLoads, utilCache, intercepts, payVars, cartVars, storage, authVars>>

\* getPackById(packId) up to its first await
GetPackByIdStart(id) ==
    /\ nLoads < MaxLoads
    /\ nLoads' = nLoads + 1
    /\ IF id \in IdsOf(packs)
       THEN /\ lastReturn' = ReturnAtOnce("getPackById", id, "pack:memory")
            /\ UNCHANGED calls
       ELSE /\ calls' = Append(calls, NewCall("getPackById", id, "api", PackUrl(id)))
            /\ lastReturn' = NoReturn
    /\ UNCHANGED <<now, packs, loading, utilCache, apiCache, intercepts, payVars, cartVars,
                   storage, authVars>>

\* getPackById after the single-item fetch: a 2xx answer is returned as data.pack ||
\* data.data; a failure is caught, a non-2xx status falls through, both to loadFromJSON
GetPackByIdApiReturn(i) ==
    /\ calls[i].op = "getPackById"
    /\ calls[i].pc = "api"
    /\ \E out \in Answers(calls[i]) :
         /\ InterceptorStore(calls[i], out)
         /\ IF IsOk(out)
            THEN /\ calls' = Finished(i)
                 /\ lastReturn' = Return([calls[i] EXCEPT !.api = out],
                                         IF out = "ok" THEN "pack:api" ELSE "absent",
                                         FALSE, "none")
            ELSE /\ calls' = [calls EXCEPT ![i] =
                                [NewCall("getPackById", calls[i].arg, "fallback", FallbackUrl)
                                    EXCEPT !.api = out]]
                 /\ lastReturn' = NoReturn
    /\ UNCHANGED <<now, packs, loading, nLoads, utilCache, intercepts, payVars, cartVars,
                   storage, authVars>>

\* getPackById after loadFromJSON, which it awaits outside any try
GetPackByIdFallbackReturn(i) ==
    /\ calls[i].op = "getPackById"
    /\ calls[i].pc = "fallback"
    /\ \E out \in Answers(calls[i]) :
         /\ InterceptorStore(calls[i], out)
         /\ lastReturn' =
              IF IsOk(out)
              THEN Return(calls[i],
                          IF out = "ok" /\ calls[i].arg \in IdsOf(FallbackPacks)
                          THEN "pack:fallback" ELSE "absent",
                          FALSE, out)
              ELSE Return(calls[i], "none", TRUE, out)
    /\ calls' = Finished(i)
    /\ UNCHANGED <<now, packs, loading, nLoads, utilCache, intercepts, payVars, cartVars,
                   storage, authVars>>

----------------------------------------------------------------------------
(* PackSystemUtils *)

\* The keys fetchWithCache is called with: getPacks and getPackDetails
CacheKeys == {ApiUrl("A"), PackUrl("p1")}

\* fetchWithCache(url, options) up to its await
FetchWithCacheStart(key) ==
    /\ nLoads < MaxLoads
    /\ nLoads' = nLoads + 1
    /\ IF Fresh(utilCache[key], CacheTimeout)
       THEN /\ lastReturn' = ReturnAtOnce("fetchWithCache", key, utilCache[key].data)
            /\ UNCHANGED calls
       ELSE /\ calls' = Append(calls, NewCall("fetchWithCache", key, "fetch", key))
            /\ lastReturn' = NoReturn
    /\ UNCHANGED <<now, packs, loading, utilCache, apiCache, intercepts, payVars, cartVars,
                   storage, authVars>>

\* fetchWithCache after fetch and response.json(): the data is cached and returned, or
\* the error is logged and thrown again
FetchWithCacheReturn(i) ==
    /\ calls[i].op = "fetchWithCache"
    /\ \E out \in Answers(calls[i]) :
         /\ InterceptorStore(calls[i], out)
         /\ IF IsOk(out)
            THEN /\ utilCache' = [utilCache EXCEPT ![calls[i].arg] = Entry(now, Stored(out))]
                 /\ lastReturn' = Return([calls[i] EXCEPT !.api = out], Stored(out),
                                         FALSE, "none")
            ELSE /\ lastReturn' = Return([calls[i] EXCEPT !.api = out], "none", TRUE, "none")
                 /\ UNCHANGED utilCache
    /\ calls' = Finished(i)
    /\ UNCHANGED <<now, packs, loading, nLoads, intercepts, payVars, cartVars, storage,
                   authVars>>

\* getPackInventory(packId): fetchWithCache(url, { cache: 'no-cache' }); the options are
\* part of the cache key and are handed on to fetch
GetPackInventory(id) == FetchWithCacheStart(InventoryUrl(id))

\* clearCache()
ClearCache ==
    /\ utilCache # [u \in Urls |-> NoEntry]
    /\ utilCache' = [u \in Urls |-> NoEntry]
    /\ lastReturn' = NoReturn
    /\ UNCHANGED <<now, packs, loading, calls, nLoads, apiCache, intercepts, payVars,
                   cartVars, storage, authVars>>

\* A minute passes
Tick ==
    /\ now < MaxTime
    /\ now' = now + 1
    /\ lastReturn' = NoReturn
    /\ UNCHANGED <<packs, loading, calls, nLoads, utilCache, apiCache, intercepts, payVars,
                   cartVars, storage, authVars>>

----------------------------------------------------------------------------
(* The pages that load data *)

InitData ==
    /\ now = 0
    /\ packs = NoPacks
    /\ loading = FALSE
    /\ calls = <<>>
    /\ nLoads = 0
    /\ lastReturn = NoReturn
    /\ utilCache = [u \in Urls |-> NoEntry]
    /\ apiCache = [u \in Urls |-> NoEntry]
    /\ intercepts \in BOOLEAN
    /\ AuthAtRest
    /\ cart = <<>>
    /\ loaded = FALSE
    /\ lastOp = NoOp
    /\ total = NoTotal
    /\ background = NotLoaded
    /\ storage = NoKey
    /\ flow = "pack"
    /\ stripe = FALSE
    /\ elements = 0
    /\ paymentElement = FALSE
    /\ paymentIntentId = 0
    /\ isProcessing = FALSE
    /\ orderData = NoData
    /\ buttonDisabled = FALSE
    /\ errorMsg = ""
    /\ successMsg = ""
    /\ lastOrder = NoOrder
    /\ redirect = "none"
    /\ form = FormIdle
    /\ inv = <<>>
    /\ nCalls = 0
    /\ settleLog = {}
    /\ settledOk = {}
    /\ unsettled = {}
    /\ intents = <<>>
    /\ intentData = <<>>

\* A page that loads packs through PackLoader
NextLoader ==
    \/ \E opt \in Options : LoadPacksStart(opt)
    \/ \E i \in Waiting : LoadPacksApiReturn(i)
    \/ \E i \in Waiting : LoadPacksFallbackReturn(i)
    \/ \E id \in PackIds : GetPackByIdStart(id)
    \/ \E i \in Waiting : GetPackByIdApiReturn(i)
    \/ \E i \in Waiting : GetPackByIdFallbackReturn(i)
    \/ Tick

SpecLoader == InitData /\ [][NextLoader]_vars

\* A page that reads the API through PackSystemUtils
NextCache ==
    \/ \E key \in CacheKeys : FetchWithCacheStart(key)
    \/ \E id \in InventoryIds : GetPackInventory(id)
    \/ \E i \in Waiting : FetchWithCacheReturn(i)
    \/ ClearCache
    \/ Tick

SpecCache == InitData /\ [][NextCache]_vars

----------------------------------------------------------------------------
(* AuthService *)

\* localStorage.setItem / removeItem by context c: the other open contexts get a storage
\* event for the key when its value changes
StoreWrite(c, w, queued) ==
    /\ authStore' = [authStore EXCEPT ![w.key] = w.value]
    /\ events' = [d \in Contexts |->
                    IF d \in contexts \ {c} /\ authStore[w.key] # w.value
                    THEN Append(queued[d], w.key)
                    ELSE queued[d]]

\* The handler running in context c has the store writes ws to do: the first is done in
\* this step, the others follow before anything else runs in c
Writes(c, ws, queued) ==
    IF ws = <<>>
    THEN /\ events' = queued
         /\ UNCHANGED <<authStore, todo>>
    ELSE /\ StoreWrite(c, Head(ws), queued)
         /\ todo' = [todo EXCEPT ![c] = Tail(ws)]

\* The next store write of the handler running in context c
StoreStep(c) ==
    /\ c \in contexts
    /\ todo[c] # <<>>
    /\ StoreWrite(c, Head(todo[c]), events)
    /\ todo' = [todo EXCEPT ![c] = Tail(@)]
    /\ UNCHANGED <<contexts, clock, memoryVars, pending, issued, nAuthCalls, lastAuth,
                   payVars, cartVars, storage, loadVars>>

\* this.token, this.currentUser, this.isAuthenticated of context c
Memory(c, authenticated, t, user) ==
    /\ isAuthenticated' = [isAuthenticated EXCEPT ![c] = authenticated]
    /\ token' = [token EXCEPT ![c] = t]
    /\ currentUser' = [currentUser EXCEPT ![c] = user]

\* Context c can run a handler: none of its own is running
Idle(c) == c \in contexts /\ todo[c] = <<>>

\* setSession: the three setItem calls, with expiryTime = now + 24 hours
ExpiryLateMutant(issuedAt) == issuedAt + SessionLifetime + 1
ExpiryTime(issuedAt) == issuedAt + SessionLifetime
SetSession(t, user) ==
    <<Write(tokenKey, t), Write(userKey, user), Write(tokenExpiryKey, ExpiryTime(clock))>>

\* clearSession: the three removeItem calls
ClearSessionKeepsUserMutant == <<Write(tokenKey, 0), Write(tokenExpiryKey, 0)>>
ClearSession == <<Write(tokenKey, 0), Write(userKey, 0), Write(tokenExpiryKey, 0)>>

\* if (token && user && expiry)
StoredComplete ==
    authStore[tokenKey] # 0 /\ authStore[userKey] # 0 /\ authStore[tokenExpiryKey] # 0

\* if (now < tokenExpiry)
StillValidAtExpiryMutant(expiry) == clock <= expiry
StillValid(expiry) == clock < expiry

\* checkExistingSession() in context c, called from op
CheckExistingSession(c, op, queued) ==
    IF StoredComplete
    THEN IF StillValid(authStore[tokenExpiryKey])
         THEN /\ Memory(c, TRUE, authStore[tokenKey], authStore[userKey])
              /\ Writes(c, <<>>, queued)
              /\ lastAuth' = AuthResult(c, op, "true", FALSE, "valid",
                                        <<"authStateChange(true)">>)
         ELSE /\ Memory(c, FALSE, 0, 0)
              /\ Writes(c, ClearSession, queued)
              /\ lastAuth' = AuthResult(c, op, "false", FALSE, "expired", <<>>)
    ELSE /\ Memory(c, FALSE, 0, 0)
         /\ Writes(c, <<>>, queued)
         /\ lastAuth' = AuthResult(c, op, "false", FALSE, "none", <<>>)

\* new AuthService() on a page load of context c: the calls and events of the page that
\* was left are gone with it
AuthServiceConstructor(c) ==
    /\ Idle(c)
    /\ pending' = [pending EXCEPT ![c] = <<>>]
    /\ CheckExistingSession(c, "init", [events EXCEPT ![c] = <<>>])
    /\ UNCHANGED <<contexts, clock, issued, nAuthCalls, payVars, cartVars, storage,
                   loadVars>>

\* if (this.isAuthenticated) in the interval callback
RefreshNeverChecksMutant(authenticated) == FALSE
RefreshChecks(authenticated) == authenticated

\* The 5-minute interval of setupTokenRefresh fires in context c
TokenRefresh(c) ==
    /\ Idle(c)
    /\ IF RefreshChecks(isAuthenticated[c])
       THEN CheckExistingSession(c, "timer", events)
       ELSE /\ lastAuth' = NoAuth
            /\ UNCHANGED <<memoryVars, authStore, events, todo>>
    /\ UNCHANGED <<contexts, clock, pending, issued, nAuthCalls, payVars, cartVars, storage,
                   loadVars>>

\* The storage listener of context c takes the next event
StorageEvent(c) ==
    /\ Idle(c)
    /\ events[c] # <<>>
    /\ IF Head(events[c]) = tokenKey
       THEN CheckExistingSession(c, "storage", [events EXCEPT ![c] = Tail(@)])
       ELSE /\ events' = [events EXCEPT ![c] = Tail(@)]
            /\ lastAuth' = NoAuth
            /\ UNCHANGED <<memoryVars, authStore, todo>>
    /\ UNCHANGED <<contexts, clock, pending, issued, nAuthCalls, payVars, cartVars, storage,
                   loadVars>>

\* A call of context c in flight: the operation and the bearer token its request carries
AuthCall(op, bearer) == [op |-> op, bearer |-> bearer]
Calls(c) == 1..Len(pending[c])
Answered(c, i) ==
    [pending EXCEPT ![c] = SubSeq(@, 1, i - 1) \o SubSeq(@, i + 1, Len(@))]

\* login(email, password) up to its fetch
LoginStart(c) ==
    /\ Idle(c)
    /\ nAuthCalls < MaxAuthCalls
    /\ nAuthCalls' = nAuthCalls + 1
    /\ pending' = [pending EXCEPT ![c] = Append(@, AuthCall("login", 0))]
    /\ lastAuth' = NoAuth
    /\ UNCHANGED <<contexts, clock, memoryVars, authStore, events, todo, issued,
                   payVars, cartVars, storage, loadVars>>

\* What POST /admin/login can be answered with: 2xx with a token, 2xx without one, a
\* non-2xx status, a network failure, 2xx with a body that is not JSON
LoginOutcomes == {"ok", "notoken", "notok", "neterr", "badjson"}
LoginSucceedsWithoutTokenMutant(out) == out \in {"ok", "notoken"}
LoginSucceeds(out) == out = "ok"

\* login after its fetch: setSession and updateUI, or the catch
LoginReturn(c, i) ==
    /\ Idle(c)
    /\ pending[c][i].op = "login"
    /\ pending' = Answered(c, i)
    /\ \E out \in LoginOutcomes :
         IF LoginSucceeds(out)
         THEN /\ issued' = Append(issued, clock)
              /\ Memory(c, TRUE, Len(issued) + 1, Len(issued) + 1)
              /\ Writes(c, SetSession(Len(issued) + 1, Len(issued) + 1), events)
              /\ lastAuth' = AuthResult(c, "login", "success", FALSE, out,
                                        <<"login", "authStateChange(true)">>)
         ELSE /\ lastAuth' = AuthResult(c, "login", "failure", FALSE, out, <<>>)
              /\ UNCHANGED <<memoryVars, authStore, events, todo, issued>>
    /\ UNCHANGED <<contexts, clock, nAuthCalls, payVars, cartVars, storage, loadVars>>

\* logout(), from the logout button of the user menu, on a page outside /admin/
Logout(c) ==
    /\ Idle(c)
    /\ isAuthenticated[c]
    /\ Memory(c, FALSE, 0, 0)
    /\ Writes(c, ClearSession, events)
    /\ lastAuth' = AuthResult(c, "logout", "none", FALSE, "none",
                              <<"authStateChange(false)", "logout">>)
    /\ UNCHANGED <<contexts, clock, pending, issued, nAuthCalls, payVars, cartVars, storage,
                   loadVars>>

\* makeAuthenticatedRequest(url, options) up to its fetch
MakeAuthenticatedRequestStart(c) ==
    /\ Idle(c)
    /\ nAuthCalls < MaxAuthCalls
    /\ nAuthCalls' = nAuthCalls + 1
    /\ IF ~isAuthenticated[c]
       THEN /\ lastAuth' = AuthResult(c, "request", "Not authenticated", TRUE, "none", <<>>)
            /\ UNCHANGED pending
       ELSE /\ pending' = [pending EXCEPT ![c] = Append(@, AuthCall("request", token[c]))]
            /\ lastAuth' = NoAuth
    /\ UNCHANGED <<contexts, clock, memoryVars, authStore, events, todo, issued,
                   payVars, cartVars, storage, loadVars>>

\* What the request can be answered with: a status other than 401, status 401, a
\* network failure
RequestOutcomes == {"response", "401", "neterr"}
\* if (response.status === 401)
UnauthorizedNeverMutant(out) == FALSE
Unauthorized(out) == out = "401"

\* makeAuthenticatedRequest after its fetch
MakeAuthenticatedRequestReturn(c, i) ==
    /\ Idle(c)
    /\ pending[c][i].op = "request"
    /\ pending' = Answered(c, i)
    /\ \E out \in RequestOutcomes :
         IF Unauthorized(out)
         THEN /\ Memory(c, FALSE, 0, 0)
              /\ Writes(c, ClearSession, events)
              /\ lastAuth' = AuthResult(c, "request", "Session expired", TRUE, out,
                                        <<"authStateChange(false)">>)
         ELSE /\ lastAuth' = AuthResult(c, "request",
                                        IF out = "neterr" THEN NetMsg ELSE "response",
                                        out = "neterr", out, <<>>)
              /\ UNCHANGED <<memoryVars, authStore, events, todo>>
    /\ UNCHANGED <<contexts, clock, issued, nAuthCalls, payVars, cartVars, storage,
                   loadVars>>

\* Twelve hours pass
Pass ==
    /\ clock < MaxClock
    /\ \A c \in contexts : todo[c] = <<>>
    /\ clock' = clock + 1
    /\ lastAuth' = NoAuth
    /\ UNCHANGED <<contexts, memoryVars, authStore, events, todo, pending, issued,
                   nAuthCalls, payVars, cartVars, storage, loadVars>>

----------------------------------------------------------------------------
(* The pages with a session *)

\* The pages have been loaded with no session stored
InitAuth ==
    /\ AuthAtRest
    /\ LoaderAtRest
    /\ cart = <<>>
    /\ loaded = FALSE
    /\ lastOp = NoOp
    /\ total = NoTotal
    /\ background = NotLoaded
    /\ storage = NoKey
    /\ flow = "pack"
    /\ stripe = FALSE
    /\ elements = 0
    /\ paymentElement = FALSE
    /\ paymentIntentId = 0
    /\ isProcessing = FALSE
    /\ orderData = NoData
    /\ buttonDisabled = FALSE
    /\ errorMsg = ""
    /\ successMsg = ""
    /\ lastOrder = NoOrder
    /\ redirect = "none"
    /\ form = FormIdle
    /\ inv = <<>>
    /\ nCalls = 0
    /\ settleLog = {}
    /\ settledOk = {}
    /\ unsettled = {}
    /\ intents = <<>>
    /\ intentData = <<>>

\* One context
NextAuth ==
    \/ \E c \in Contexts : AuthServiceConstructor(c)
    \/ \E c \in Contexts : TokenRefresh(c)
    \/ \E c \in Contexts : LoginStart(c)
    \/ \E c \in Contexts : \E i \in Calls(c) : LoginReturn(c, i)
    \/ \E c \in Contexts : Logout(c)
    \/ \E c \in Contexts : MakeAuthenticatedRequestStart(c)
    \/ \E c \in Contexts : \E i \in Calls(c) : MakeAuthenticatedRequestReturn(c, i)
    \/ \E c \in Contexts : StoreStep(c)
    \/ Pass

SpecAuth == InitAuth /\ [][NextAuth]_vars

\* The timer keeps firing, and a handler that has started runs to its end
SpecAuthTimer ==
    /\ SpecAuth
    /\ \A c \in Contexts : WF_vars(TokenRefresh(c)) /\ WF_vars(StoreStep(c))

\* A second tab is opened on the same store: its AuthService is constructed
OpenTab ==
    /\ contexts = {1}
    /\ contexts' = {1, 2}
    /\ CheckExistingSession(2, "init", events)
    /\ UNCHANGED <<clock, pending, issued, nAuthCalls, payVars, cartVars, storage,
                   loadVars>>

\* Two contexts
NextTabs ==
    \/ NextAuth
    \/ OpenTab
    \/ \E c \in Contexts : StorageEvent(c)

SpecTabs == InitAuth /\ [][NextTabs]_vars

----------------------------------------------------------------------------
(* Steps of the payment page, as the properties below speak of them *)

\* Invocation i returns in this step / moves on to its next await
Returned(i) == inv' = Without(i)
Advanced(i) == Len(inv') = Len(inv) /\ inv'[i] # inv[i]
Handled(i) == Returned(i) \/ Advanced(i)

\* A settlement request for intent k leaves in this step
SendsSettlement(k) ==
    /\ Len(inv') = Len(inv)
    /\ \E i \in InFlight : /\ inv[i].pc # "settling"
                           /\ inv'[i].pc = "settling"
                           /\ inv'[i].sent = k

\* The gateway reported intent k as succeeded and a settlement request went out on that
GatewayReportedSuccess(k) ==
    \E r \in settleLog : r.intent = k /\ r.basis \in {"ok_succeeded", "retrieved_succeeded"}

\* State SUCCEEDED of intent k
Succeeded(k) == k \in settledOk /\ GatewayReportedSuccess(k)

\* Invocation i is handed a failed settlement in this step
SettlementFails(i) ==
    /\ inv[i].pc = "settling"
    /\ inv[i].resp \in {"netfail", "fail", "fail_bare"}
    /\ Returned(i)

\* Invocation i is handed a successful settlement in this step
SettlementSucceeds(i) ==
    /\ inv[i].pc = "settling"
    /\ inv[i].resp \in {"ok", "ok_noorder"}
    /\ Returned(i)

\* Invocation i is handed this answer of the gateway's confirmation in this step
ConfirmAnswered(i, out) ==
    /\ inv[i].pc = "confirming"
    /\ inv[i].resp = out
    /\ Handled(i)

----------------------------------------------------------------------------
(* Properties *)

\* C1: once an intent is SUCCEEDED (the gateway reported success and a settlement call
\* for it returned success), no step sends another settlement request for it.
C1_NoSettlementAfterSucceeded ==
    [][\A k \in Created : Succeeded(k) => ~SendsSettlement(k)]_vars

\* C2: every settlement request was sent after the gateway reported the intent as
\* succeeded, or answered with the already-confirmed condition; none was sent on
\* another observed status such as processing.
C2_SettlementOnlyAfterGatewaySuccess ==
    \A r \in settleLog :
        r.basis \in {"ok_succeeded", "retrieved_succeeded", "unexpected_state"}

\* C3: a settlement that fails after the gateway reported success shows the
\* contact-support text, and no later step sends a settlement request for an intent
\* whose settlement has failed.
C3_UnsettledIsDistinctAndFinal ==
    [][/\ \A i \in InFlight :
             SettlementFails(i) /\ GatewayReportedSuccess(inv[i].sent)
                 => errorMsg' = MsgContactSupport
       /\ \A k \in unsettled : GatewayReportedSuccess(k) => ~SendsSettlement(k)]_vars

\* C4: at most one gateway or settlement call is in flight at any time.
C4_AtMostOneInFlight == Len(inv) <= 1

\* C5: in the single-pack flow, the gateway's already-in-unexpected-state answer makes
\* the invocation send the settlement request for the current intent, and shows no
\* error.
C5_PackAlreadyConfirmedSettles ==
    [][\A i \in InFlight :
          flow = "pack" /\ ConfirmAnswered(i, "unexpected_state")
              => /\ Advanced(i)
                 /\ inv'[i].pc = "settling"
                 /\ inv'[i].sent = paymentIntentId
                 /\ \E r \in settleLog' : r.intent = paymentIntentId
                                          /\ r.basis = "unexpected_state"
                 /\ errorMsg' = errorMsg]_vars

C5_Witness ==
    /\ flow = "pack"
    /\ \E i \in InFlight : inv[i].pc = "settling" /\ inv[i].sent = paymentIntentId
    /\ \E r \in settleLog : r.intent = paymentIntentId /\ r.basis = "unexpected_state"

\* C6: in the cart flow, the gateway's already-in-unexpected-state answer makes the
\* invocation send the settlement request for the intent, and shows no error.
C6_CartAlreadyConfirmedSettles ==
    [][\A i \in InFlight :
          flow = "cart" /\ ConfirmAnswered(i, "unexpected_state")
              => /\ Advanced(i)
                 /\ inv'[i].pc = "settling"
                 /\ inv'[i].sent = inv[i].target
                 /\ errorMsg' = errorMsg]_vars

\* C7: a gateway error other than the already-confirmed condition ends the invocation
\* with no settlement request, the gateway's text shown, the persisted cart and the
\* stored last order unchanged, and the in-flight guard and submit control reset.
C7_GatewayErrorIsRetryable ==
    [][\A i \in InFlight :
          ConfirmAnswered(i, "declined")
              => /\ Returned(i)
                 /\ settleLog' = settleLog
                 /\ errorMsg' = GwDeclinedMsg
                 /\ storage' = storage
                 /\ lastOrder' = lastOrder
                 /\ isProcessing' = FALSE
                 /\ buttonDisabled' = FALSE]_vars

C7_Witness ==
    /\ errorMsg = GwDeclinedMsg
    /\ inv = <<>>
    /\ nCalls > 0
    /\ ~isProcessing
    /\ ~buttonDisabled

\* C8: in the cart flow a step removes the persisted cart snapshot and stores the
\* returned order exactly when it hands a successful settlement to its invocation;
\* every other step leaves both unchanged.
C8_CartCommitsExactlyOnSuccess ==
    [][flow = "cart" =>
          IF \E i \in InFlight : SettlementSucceeds(i)
          THEN /\ storage' = NoKey
               /\ \E i \in InFlight :
                     /\ SettlementSucceeds(i)
                     /\ lastOrder' = IF inv[i].resp = "ok" THEN OrderOf(inv[i].sent)
                                      ELSE JsonUndefined
          ELSE storage' = storage /\ lastOrder' = lastOrder]_vars

C8_Witness ==
    /\ flow = "cart"
    /\ storage = NoKey
    /\ lastOrder = OrderOf(1)
    /\ redirect = "pending"

\* C9: no two items of the in-memory cart share an id.
C9_NoDuplicateIds ==
    \A m, n \in 1..Len(cart) : m # n => cart[m].id # cart[n].id

\* C10: an accepted addToCart raises the quantity of an item that has the id by
\* exactly 1 and leaves the length and every other item unchanged, or, when no item
\* has the id, appends one item of quantity 1.
C10_AddIncrementsOrAppends ==
    [][lastOp'.op = "addToCart" /\ ~lastOp'.rejected =>
          IF \E n \in 1..Len(cart) : cart[n].id = lastOp'.id
          THEN /\ Len(cart') = Len(cart)
               /\ \E n \in 1..Len(cart) :
                     /\ cart[n].id = lastOp'.id
                     /\ cart'[n].quantity[2] = cart[n].quantity[2] + 1
                     /\ \A m \in 1..Len(cart) : m # n => cart'[m] = cart[m]
          ELSE /\ Len(cart') = Len(cart) + 1
               /\ SubSeq(cart', 1, Len(cart)) = cart
               /\ cart'[Len(cart')].id = lastOp'.id
               /\ cart'[Len(cart')].quantity = Num(1)]_vars

----------------------------------------------------------------------------
(* Properties of the cart store *)

\* The CartItem invariant for a price: a finite number that is not negative
IsFinitePrice(v) == v[1] = "num" /\ v[2] >= 0

\* The add-to-cart data the store has to refuse
MustReject(button) ==
    \/ ~Truthy(button.id)
    \/ ~Truthy(button.name)
    \/ ~IsFinitePrice(ParseFloat(button.rawPrice))

\* C11: an addToCart whose id or name is missing or empty, or whose price is not a
\* finite number >= 0, leaves the in-memory cart and the persisted snapshot unchanged.
C11_AddRejectsInvalidData ==
    [][\A button \in Buttons :
          MustReject(button) /\ AddToCart(button) => cart' = cart /\ storage' = storage]_vars

\* This step completes a mutation of the cart: an accepted addToCart, a removeFromCart,
\* a clearCart, or a loadCart that dropped an item
CompletesMutation ==
    \/ lastOp'.op = "addToCart" /\ ~lastOp'.rejected
    \/ lastOp'.op \in {"removeFromCart", "clearCart"}
    \/ lastOp'.op = "loadCart" /\ storage.kind = "json" /\ Len(cart') # Len(storage.items)

\* C12: after each completed cart mutation the persisted snapshot equals the
\* in-memory cart.
C12_PersistedEqualsInMemory ==
    [][CompletesMutation => storage' = Json(cart')]_vars

\* The CartItem invariant as loadCart is to test it: non-empty id and name, a numeric
\* price that is not negative, a quantity above 0
SatisfiesInvariant(it) ==
    /\ Truthy(it.id)
    /\ Truthy(it.name)
    /\ it.price[1] \in {"num", "inf"}
    /\ it.price[1] = "num" => it.price[2] >= 0
    /\ GreaterThanZero(it.quantity)

\* C13: loadCart returns exactly the persisted items that satisfy the CartItem
\* invariant, in their order and unchanged.
C13_LoadKeepsExactlyValidItems ==
    [][lastOp'.op = "loadCart" /\ storage.kind = "json"
          => cart' = SelectSeq(storage.items, SatisfiesInvariant)]_vars

\* C14: a loadCart that drops an item leaves a snapshot from which the next loadCart
\* returns the same cart, drops nothing and writes nothing; a loadCart that drops
\* nothing does not write.
C14_LoadIsIdempotent ==
    [][lastOp'.op = "loadCart" /\ storage.kind = "json"
          => IF Len(cart') # Len(storage.items)
             THEN /\ storage'.kind = "json"
                  /\ ValidItems(storage'.items) = cart'
                  /\ Len(ValidItems(storage'.items)) = Len(storage'.items)
             ELSE storage' = storage]_vars

\* A number that is not NaN and not negative
IsNonNegativeNumber(v) == v[1] = "inf" \/ (v[1] = "num" /\ v[2] >= 0)

\* C15: every item of the in-memory cart has a numeric price and a positive numeric
\* quantity, and getTotalItems and getTotalPrice return non-negative numbers, never NaN.
C15_TotalsAreNumbers ==
    /\ \A n \in 1..Len(cart) :
          /\ cart[n].price[1] \in {"num", "inf"}
          /\ cart[n].quantity[1] \in {"num", "inf"}
          /\ GreaterThanZero(cart[n].quantity)
    /\ total # NoTotal => IsNonNegativeNumber(total)

\* The sum of the items' quantities, from item n on
RECURSIVE QuantitySum(_, _)
QuantitySum(items, n) ==
    IF n > Len(items) THEN 0 ELSE items[n].quantity[2] + QuantitySum(items, n + 1)

\* The sum of price * quantity over the items, from item n on
RECURSIVE PriceSum(_, _)
PriceSum(items, n) ==
    IF n > Len(items) THEN 0
    ELSE items[n].price[2] * items[n].quantity[2] + PriceSum(items, n + 1)

\* C16: getTotalItems returns the sum of the quantities, getTotalPrice the sum of
\* price * quantity (infinite when a price is), and neither changes the cart or the
\* persisted snapshot.
C16_TotalsAreTheSums ==
    [][total' # NoTotal
          => /\ cart' = cart
             /\ storage' = storage
             /\ lastOp'.op = "getTotalItems" => total' = Num(QuantitySum(cart, 1))
             /\ lastOp'.op = "getTotalPrice"
                   => total' = IF \E n \in 1..Len(cart) : cart[n].price = Infinity
                                THEN Infinity
                                ELSE Num(PriceSum(cart, 1))]_vars

----------------------------------------------------------------------------
(* Properties of data loading *)

\* C17: a loadPacks call does not raise and returns the API's packs for its own filters
\* when the API answered it 2xx with a non-empty collection, else the contents of the
\* fallback snapshot when that could be read, else an empty collection.
C17_LoadPacksReturnsBestSource ==
    lastReturn.op = "loadPacks"
        => /\ ~lastReturn.raised
           /\ lastReturn.value = IF lastReturn.api = "ok" THEN ApiPacks(lastReturn.arg)
                                 ELSE IF lastReturn.fallback = "ok" THEN FallbackPacks
                                 ELSE NoPacks

\* C18: a getPackById call does not raise; it returns the pack held in memory, else the
\* API's pack, else the fallback snapshot's pack with the id, else absent.
C18_GetPackByIdNeverThrows ==
    lastReturn.op = "getPackById"
        => /\ ~lastReturn.raised
           /\ lastReturn.value =
                 CASE lastReturn.api = "none" -> "pack:memory"
                   [] lastReturn.api = "ok" -> "pack:api"
                   [] lastReturn.api \notin {"none", "ok"} /\ lastReturn.fallback = "ok"
                        /\ lastReturn.arg \in IdsOf(FallbackPacks) -> "pack:fallback"
                   [] OTHER -> "absent"

\* A fetchWithCache call for the key starts in this step
StartsFetchWithCache(key) ==
    /\ nLoads' = nLoads + 1
    /\ \/ lastReturn'.op = "fetchWithCache" /\ lastReturn'.arg = key
       \/ /\ Len(calls') = Len(calls) + 1
          /\ calls'[Len(calls')].op = "fetchWithCache"
          /\ calls'[Len(calls')].arg = key

\* The call that starts in this step returns the cached data and calls no fetch
ServedFromCache(key) ==
    /\ calls' = calls
    /\ lastReturn' = ReturnAtOnce("fetchWithCache", key, utilCache[key].data)

\* C19: a fetchWithCache call is served from the cache, with no fetch, exactly when the
\* cache holds an entry for its key that is less than 5 minutes old; otherwise it calls
\* fetch, and a successful answer replaces the entry with one stamped with the
\* current time.
C19_CacheServesExactlyFreshEntries ==
    [][\A key \in CacheKeys :
          /\ StartsFetchWithCache(key)
                => /\ ServedFromCache(key)
                        <=> (utilCache[key] # NoEntry /\ now - utilCache[key].at < 5)
                   /\ ~ServedFromCache(key)
                        => calls' = Append(calls, NewCall("fetchWithCache", key, "fetch", key))
          /\ \A i \in Waiting :
                (/\ calls[i].op = "fetchWithCache"
                 /\ calls[i].arg = key
                 /\ calls' = Finished(i)
                 /\ ~lastReturn'.raised)
                    => /\ utilCache'[key].at = now
                       /\ utilCache'[key].data = lastReturn'.value]_vars

C19_Witness ==
    /\ lastReturn.op = "fetchWithCache"
    /\ lastReturn.api = "none"
    /\ ~lastReturn.raised
    /\ utilCache[lastReturn.arg] # NoEntry
    /\ now - utilCache[lastReturn.arg].at = 4

\* C20: a cache entry is created only by a fetchWithCache call or an intercepted API
\* read that was answered 2xx; a failed fetchWithCache raises and leaves the caches
\* unchanged; the fallback snapshot is never stored in either cache.
C20_OnlyApiSuccessIsCached ==
    [][/\ \A u \in Urls :
             (utilCache'[u] # utilCache[u] /\ utilCache'[u] # NoEntry)
                 => \E i \in Waiting : /\ calls[i].op = "fetchWithCache"
                                        /\ calls[i].arg = u
                                        /\ calls' = Finished(i)
                                        /\ IsOk(lastReturn'.api)
       /\ \A i \in Waiting :
             (/\ calls[i].op = "fetchWithCache"
              /\ calls' = Finished(i)
              /\ ~IsOk(lastReturn'.api))
                 => /\ lastReturn'.raised
                    /\ utilCache' = utilCache
                    /\ apiCache' = apiCache
       /\ utilCache'[FallbackUrl] = NoEntry
       /\ apiCache'[FallbackUrl] = NoEntry]_vars

----------------------------------------------------------------------------
(* Properties of one payment invocation *)

\* Invocation i sends a settlement request in this step
SendsSettlementFrom(i) ==
    /\ Len(inv') = Len(inv)
    /\ inv[i].pc # "settling"
    /\ inv'[i].pc = "settling"

\* C28: one processPayment / processCartPayment invocation sends at most one settlement
\* request; after a settlement that failed it sends no other one by itself.
C28_OneSettlementPerInvocation ==
    [][\A i \in InFlight : SendsSettlementFrom(i) => inv[i].sent = 0]_vars

----------------------------------------------------------------------------
(* Properties of the session manager *)

CheckOps == {"init", "timer", "storage"}

\* checkExistingSession runs in context c in this step
Checks(c) ==
    /\ todo[c] = <<>>
    /\ lastAuth'.ctx = c
    /\ lastAuth'.op \in CheckOps

\* The handler of context c does its last store write in this step
Completes(c) ==
    /\ todo[c] # <<>>
    /\ todo'[c] = <<>>
    /\ lastAuth.ctx = c

\* The session of the token that is stored was created by login at this time
CreatedAt == issued[authStore[tokenKey]]

\* C21: checkExistingSession treats the stored session that login created at time T as
\* valid at every instant before T + 24h and as invalid at every instant from T + 24h on.
C21_ValidUntilExpiry ==
    [][\A c \in Contexts :
          (Checks(c) /\ StoredComplete)
              => /\ clock < CreatedAt + SessionLifetime
                      => (lastAuth'.value = "true" /\ isAuthenticated'[c])
                 /\ clock >= CreatedAt + SessionLifetime
                      => (lastAuth'.value = "false" /\ ~isAuthenticated'[c])]_vars

C21_Witness ==
    /\ lastAuth.op = "timer"
    /\ lastAuth.value = "true"
    /\ StoredComplete
    /\ clock = CreatedAt + SessionLifetime - 1

\* C22: the stored expiry is written at issuance as issuance time + 24h; after that it
\* changes only by being removed or by a new login writing its own.
C22_ExpiryFixedAtIssuance ==
    [][authStore'[tokenExpiryKey] # authStore[tokenExpiryKey]
          => \/ authStore'[tokenExpiryKey] = 0
             \/ \E c \in Contexts :
                  /\ lastAuth.ctx = c
                  /\ lastAuth.op = "login"
                  /\ lastAuth.value = "success"
                  /\ issued[token[c]] = clock
                  /\ authStore'[tokenExpiryKey] = clock + SessionLifetime]_vars

C22_Witness ==
    /\ lastAuth.op = "timer"
    /\ lastAuth.found = "valid"
    /\ StoredComplete
    /\ clock > CreatedAt
    /\ authStore[tokenExpiryKey] = CreatedAt + SessionLifetime

\* C23: checkExistingSession with a stored session past its expiry removes token, user
\* and expiry from the store, makes the context anonymous and returns false; with nothing
\* stored it makes the context anonymous, returns false, raises nothing, writes nothing.
C23_ExpiredIsPurged ==
    [][\A c \in Contexts :
          /\ (Checks(c) /\ StoredComplete /\ clock >= authStore[tokenExpiryKey])
                => /\ ~isAuthenticated'[c]
                   /\ token'[c] = 0
                   /\ currentUser'[c] = 0
                   /\ lastAuth'.value = "false"
                   /\ ~lastAuth'.raised
                   /\ lastAuth'.found = "expired"
          /\ (Completes(c) /\ lastAuth.op \in CheckOps /\ lastAuth.found = "expired")
                => authStore' = NoSession
          /\ (Checks(c) /\ authStore = NoSession)
                => /\ ~isAuthenticated'[c]
                   /\ lastAuth'.value = "false"
                   /\ ~lastAuth'.raised
                   /\ authStore' = NoSession
                   /\ todo'[c] = <<>>]_vars

C23_Witness ==
    /\ lastAuth.op = "init"
    /\ lastAuth.found = "expired"
    /\ todo[lastAuth.ctx] = <<>>
    /\ authStore = NoSession
    /\ ~isAuthenticated[lastAuth.ctx]

\* C30: with two tabs sharing the store, after each completed cart mutation the persisted
\* snapshot equals the whole in-memory cart of the tab that made it, whatever the other
\* tab holds.
C30_SnapshotIsLastMutatorsCart ==
    [][(background.loaded /\ CompletesMutation) => storage' = Json(cart')]_vars

\* The operation of this step dispatched the auth event e
Notifies(e) == \E n \in DOMAIN lastAuth'.notified : lastAuth'.notified[n] = e

\* Call i of context c is answered in this step
AnswersCall(c, i, op) ==
    /\ i \in Calls(c)
    /\ pending[c][i].op = op
    /\ pending' = Answered(c, i)
    /\ lastAuth'.ctx = c
    /\ lastAuth'.op = op

C25_LoginStoresOnlyOnSuccess ==
    [][\A c \in Contexts :
          /\ \A i \in Calls(c) :
                AnswersCall(c, i, "login")
                    => IF lastAuth'.found = "ok"
                       THEN /\ isAuthenticated'[c]
                            /\ token'[c] # 0
                            /\ currentUser'[c] # 0
                            /\ lastAuth'.value = "success"
                            /\ Notifies("authStateChange(true)")
                       ELSE /\ lastAuth'.value = "failure"
                            /\ lastAuth'.notified = <<>>
                            /\ UNCHANGED <<memoryVars, authStore, todo>>
          /\ (Completes(c) /\ lastAuth.op = "login" /\ lastAuth.value = "success")
                => /\ authStore'[tokenKey] = token[c]
                   /\ authStore'[userKey] = currentUser[c]
                   /\ authStore'[tokenExpiryKey] = clock + SessionLifetime]_vars

C25_Witness ==
    /\ lastAuth.op = "login"
    /\ lastAuth.value = "success"
    /\ todo[lastAuth.ctx] = <<>>
    /\ isAuthenticated[lastAuth.ctx]
    /\ authStore[tokenKey] = token[lastAuth.ctx]
    /\ authStore[tokenExpiryKey] = clock + SessionLifetime

\* C26: a context becomes authenticated only by a successful login, and anonymous only by
\* logout, by checkExistingSession finding the session expired or gone, or by a 401 answer.
C26_TransitionsOnlyByTheirOperations ==
    [][\A c \in Contexts :
          /\ (~isAuthenticated[c] /\ isAuthenticated'[c])
                => /\ lastAuth'.ctx = c
                   /\ lastAuth'.op = "login"
                   /\ lastAuth'.value = "success"
          /\ (isAuthenticated[c] /\ ~isAuthenticated'[c])
                => /\ lastAuth'.ctx = c
                   /\ \/ lastAuth'.op = "logout"
                      \/ lastAuth'.op \in CheckOps /\ lastAuth'.found \in {"expired", "none"}
                      \/ lastAuth'.op = "request" /\ lastAuth'.found = "401"]_vars

\* Every storage event has been delivered and no handler is running
Settled == \A c \in contexts : events[c] = <<>> /\ todo[c] = <<>>

\* C27: once every storage event has been delivered, each of two contexts sharing the
\* store is authenticated only if a complete session is stored, and is authenticated if a
\* complete unexpired session is stored.
C27_SiblingsMatchTheStore ==
    (contexts = Contexts /\ Settled)
        => \A c \in contexts :
             /\ isAuthenticated[c] => StoredComplete
             /\ (StoredComplete /\ clock < authStore[tokenExpiryKey]) => isAuthenticated[c]

\* C29: an authenticated context whose stored session has passed its expiry is, while
\* the timer keeps firing, eventually anonymous with the session removed from the store
\* (unless a new login has stored a fresh session by then).
C29_ExpiredSessionIsEventuallyPurged ==
    (isAuthenticated[1] /\ StoredComplete /\ clock >= authStore[tokenExpiryKey])
        ~> \/ ~isAuthenticated[1] /\ authStore = NoSession
           \/ StoredComplete /\ clock < authStore[tokenExpiryKey]

C29_Witness ==
    /\ lastAuth.ctx = 1
    /\ lastAuth.op = "timer"
    /\ lastAuth.found = "expired"
    /\ todo[1] = <<>>
    /\ authStore = NoSession
    /\ ~isAuthenticated[1]

----------------------------------------------------------------------------
(* Properties of the remaining operations *)

\* The places of the items of the cart whose id is not itemId
Others(itemId) == {n \in DOMAIN cart : cart[n].id # itemId}

C32_InventoryIsNotCached ==
    \A id \in InventoryIds :
        /\ utilCache[InventoryUrl(id)] = NoEntry
        /\ ~(/\ lastReturn.op = "fetchWithCache"
             /\ lastReturn.arg = InventoryUrl(id)
             /\ lastReturn.api = "none"
             /\ ~lastReturn.raised)

\* C33: while no loadPacks call is waiting for an answer, PackLoader.loading is false, so
\* the next loadPacks call loads for its own options.
C33_LoadingOnlyWhileInFlight ==
    (\A i \in Waiting : calls[i].op # "loadPacks") => ~loading

\* C34: when the last createPaymentForm / createCartPaymentForm call returned false, no
\* processPayment / processCartPayment invocation sends a confirmation to the gateway.
C34_NoConfirmationAfterFailedForm ==
    [][form.returned = "false" => ~ConfirmationSent]_vars

\* C35: every settlement request carries the order contents and customer the intent it
\* names was created with.
C35_SettlementCarriesTheIntentsData ==
    \A r \in settleLog : r.sameData

\* A request of makeAuthenticatedRequest leaves context c in this step
SendsRequest(c) ==
    /\ Len(pending'[c]) = Len(pending[c]) + 1
    /\ pending'[c][Len(pending'[c])].op = "request"

\* C36: a request sent by makeAuthenticatedRequest carries a token whose session has not
\* passed its expiry: now < expiry time of the session the token was stored with.
C36_NoRequestWithExpiredToken ==
    [][\A c \in Contexts :
          SendsRequest(c)
              => LET bearer == pending'[c][Len(pending'[c])].bearer
                 IN  bearer # 0 /\ clock < ExpiryTime(issued[bearer])]_vars

\* isAuthenticated of context c before the handler of this step ran: false in the object
\* a page load has just constructed
FlagBefore(c) == IF lastAuth'.ctx = c /\ lastAuth'.op = "init" THEN FALSE ELSE isAuthenticated[c]

\* C37: a step that changes isAuthenticated of a context dispatches authStateChange with
\* the new value from that context, in the same handler.
C37_EveryFlagChangeIsNotified ==
    [][\A c \in Contexts :
          isAuthenticated'[c] # FlagBefore(c)
              => /\ lastAuth'.ctx = c
                 /\ Notifies(IF isAuthenticated'[c] THEN "authStateChange(true)"
                                                    ELSE "authStateChange(false)")]_vars
====
